---------------------------- MODULE Spec2Model ----------------------------
(***************************************************************************)
(* The transcription workflow of src/App.tsx (the App component) together  *)
(* with the three HTTP operations of src/services/assemblyai.ts.           *)
(*                                                                         *)
(* The component state (useState cells and the pollingIntervalRef ref) are *)
(* the variables.  The browser's interval timers, the HTTP requests in     *)
(* flight, the suspended handleSubmit continuations and the job statuses   *)
(* held by the remote service are the environment.  Every event handler,   *)
(* timer callback and promise continuation is one action.                  *)
(*                                                                         *)
(* Not modelled: the copy button (isCopied, handleCopy) and the DOM value  *)
(* of the file input, which no other state depends on.                     *)
(*                                                                         *)
(* Three specifications share the actions:                                 *)
(*   Spec      the intents the rendered page can emit;                     *)
(*   SpecForm  Spec, with the two source handlers also run while their     *)
(*             input is disabled;                                          *)
(*   SpecH     every handler run in any state.                             *)
(***************************************************************************)
EXTENDS Integers, FiniteSets, TLC

(***************************************************************************)
(* Bounds of the model.                                                    *)
(***************************************************************************)
\* number of HTTP requests (upload, createJob, fetchJob) that may be in flight together
MaxPending == 2

VARIABLES
    mounted,             \* the component is mounted (cleanup of the [] effect not yet run)
    apiKey,              \* useState apiKey
    store,               \* localStorage entry 'assemblyai_api_key' ("" when absent)
    audioUrl,            \* useState audioUrl
    selectedFile,        \* useState selectedFile ("null" when no file)
    transcript,          \* useState transcript (NoTranscript when null)
    status,              \* useState status
    error,               \* useState error ("null" when null)
    pollingIntervalRef,  \* pollingIntervalRef.current (0 when null)
    timers,              \* the intervals window.setInterval scheduled and nobody cleared
    subs,                \* handleSubmit invocations suspended at an await
    fetches,             \* per job id, the getTranscriptionResult requests in flight
    server,              \* per job id, the job as the remote service holds it
    last,                \* the handler or callback that ran last and what it did
    authBlocked          \* the last submit was refused for an empty credential

vars == <<mounted, apiKey, store, audioUrl, selectedFile, transcript, status, error,
          pollingIntervalRef, timers, subs, fetches, server, last, authBlocked>>

(***************************************************************************)
(* Values.                                                                 *)
(*                                                                         *)
(* The service gives every job a fresh id and window.setInterval returns a *)
(* fresh handle; the program only stores and compares them.  The model     *)
(* names a new job by the least number of JobIds the program holds no      *)
(* reference to any more, and names the interval that pollTranscript(id)   *)
(* schedules by that id (pollTranscript is called once per job).           *)
(***************************************************************************)
Keys == {"", "k1"}
Urls == {"", "https://x/a.mp3"}
Files == {"null", "a.mp3"}
\* the program refers to the jobs of its pending requests and to the job of its interval
JobIds == 1..(MaxPending + 1)
JobErrors == {"", "bad audio"}

Status == {"idle", "uploading", "submitting", "polling", "completed", "error"}
TranscriptStatus == {"queued", "processing", "completed", "error"}

NoTranscript == [id |-> 0, status |-> "none", error |-> ""]
NoJob == [status |-> "none", error |-> ""]
UploadUrl == "upload_url"

AuthMsg == "Por favor, insira sua chave da API AssemblyAI para continuar."
PollJobErrMsg == "Falha ao processar a transcricao."
PollFetchErrMsg == "Nao foi possivel obter o resultado da transcricao."
SubmitJobErrMsg == "Erro ao submeter o audio."
SubmitFailMsg == "Falha ao enviar a solicitacao"

\* what the last step did: the handler, the submission or job it served, its outcome,
\* and whether it cleared an interval that was still scheduled
Did(act, job, resp, stopped) ==
    [act |-> act, job |-> job, resp |-> resp, stopped |-> stopped]

\* the Client operation the last step invoked, if any
Calls ==
    IF last.act = "handleSubmit" /\ last.resp = "upload" THEN {"upload"}
    ELSE IF last.act = "handleSubmit" /\ last.resp = "create" THEN {"createJob"}
    ELSE IF last.act = "uploadResponse" /\ last.resp = "ok" THEN {"createJob"}
    ELSE IF last.act = "tick" THEN {"fetchJob"}
    ELSE {}

(***************************************************************************)
(* Derived values of the render.                                           *)
(***************************************************************************)
isProcessing == status \in {"uploading", "submitting", "polling"}
isFormDisabled == apiKey = "" \/ isProcessing
isReadyToSubmit == (audioUrl # "" \/ selectedFile # "null") /\ apiKey # ""
urlInputDisabled == isFormDisabled \/ selectedFile # "null"
fileInputDisabled == isFormDisabled \/ audioUrl # ""
submitDisabled == ~isReadyToSubmit \/ isProcessing
resetVisible == status \in {"completed", "error"}

(***************************************************************************)
(* Timers, requests and the service.                                       *)
(***************************************************************************)
\* clearInterval(h): the interval with handle h, if any, no longer fires
clearInterval(ts, h) == {t \in ts : t.id # h}

\* "if (pollingIntervalRef.current) clearInterval(pollingIntervalRef.current)"
stopPolling(ts, ref) == IF ref # 0 THEN clearInterval(ts, ref) ELSE ts

\* pollTranscript without the clearInterval of the interval scheduled before
pollTranscriptNoClear(id, key) ==
    IF key = ""
    THEN [timers |-> timers, ref |-> pollingIntervalRef]
    ELSE [timers |-> timers \cup {[id |-> id, key |-> key]}, ref |-> id]

\* pollTranscript(id) of the render whose apiKey is key: the intervals and the ref after it
pollTranscript(id, key) ==
    IF key = ""
    THEN [timers |-> timers, ref |-> pollingIntervalRef]
    ELSE [timers |-> stopPolling(timers, pollingIntervalRef) \cup {[id |-> id, key |-> key]},
          ref |-> id]

\* number of requests in flight: the suspended submissions ss, and the fetches fs of the
\* jobs 1..n
RECURSIVE inflight(_, _, _)
inflight(ss, fs, n) == IF n = 0 THEN Cardinality(ss) ELSE fs[n] + inflight(ss, fs, n - 1)

\* ids with a request in flight: a suspended handleSubmit or a pending fetch
pending(ss, fs) == {j \in JobIds : fs[j] > 0 \/ \E s \in ss : s.sub = j}

\* ids the program still refers to
referenced(j) ==
    \/ j \in pending(subs, fetches)
    \/ \E t \in timers : t.id = j
    \/ pollingIntervalRef = j

\* the service's jobs somebody may still ask about: those with an interval scheduled or
\* a request in flight; the others are dropped from the model of the service
observed(srv, ts, fs) ==
    [j \in JobIds |-> IF fs[j] > 0 \/ \E t \in ts : t.id = j THEN srv[j] ELSE NoJob]

(***************************************************************************)
(* Initial state: the values of the useState/useRef initialisers.          *)
(***************************************************************************)
Init ==
    /\ mounted = TRUE
    /\ store \in Keys
    /\ apiKey = store
    /\ audioUrl = ""
    /\ selectedFile = "null"
    /\ transcript = NoTranscript
    /\ status = "idle"
    /\ error = "null"
    /\ pollingIntervalRef = 0
    /\ timers = {}
    /\ subs = {}
    /\ fetches = [j \in JobIds |-> 0]
    /\ server = [j \in JobIds |-> NoJob]
    /\ last = Did("init", 0, "", FALSE)
    /\ authBlocked = FALSE

(***************************************************************************)
(* User intents: the handlers the presentation layer calls.                *)
(***************************************************************************)
\* an effect that writes the credential but never removes the entry
setApiKeyNeverRemoves(k) ==
    /\ mounted
    /\ k # apiKey
    /\ apiKey' = k
    /\ store' = IF k = "" THEN store ELSE k
    /\ last' = Did("setApiKey", 0, "", FALSE)
    /\ UNCHANGED <<mounted, audioUrl, selectedFile, transcript, status, error,
                   pollingIntervalRef, timers, subs, fetches, server, authBlocked>>

\* onChange of the api-key input, then the useEffect([apiKey]) that mirrors it to localStorage
setApiKey(k) ==
    /\ mounted
    /\ k # apiKey
    /\ apiKey' = k
    /\ store' = k
    /\ last' = Did("setApiKey", 0, "", FALSE)
    /\ UNCHANGED <<mounted, audioUrl, selectedFile, transcript, status, error,
                   pollingIntervalRef, timers, subs, fetches, server, authBlocked>>

handleUrlChange(v) ==
    /\ mounted
    /\ audioUrl' = v
    /\ selectedFile' = IF v # "" THEN "null" ELSE selectedFile
    /\ last' = Did("handleUrlChange", 0,
                    IF v # "" /\ selectedFile # "null" THEN "cleared" ELSE "", FALSE)
    /\ UNCHANGED <<mounted, apiKey, store, transcript, status, error,
                   pollingIntervalRef, timers, subs, fetches, server, authBlocked>>

\* handleFileChange without "if (file) setAudioUrl('')"
handleFileChangeNoClear(f) ==
    /\ mounted
    /\ selectedFile' = f
    /\ audioUrl' = audioUrl
    /\ last' = Did("handleFileChange", 0,
                    IF f # "null" /\ audioUrl # "" THEN "cleared" ELSE "", FALSE)
    /\ UNCHANGED <<mounted, apiKey, store, transcript, status, error,
                   pollingIntervalRef, timers, subs, fetches, server, authBlocked>>

handleFileChange(f) ==
    /\ mounted
    /\ selectedFile' = f
    /\ audioUrl' = IF f # "null" THEN "" ELSE audioUrl
    /\ last' = Did("handleFileChange", 0,
                    IF f # "null" /\ audioUrl # "" THEN "cleared" ELSE "", FALSE)
    /\ UNCHANGED <<mounted, apiKey, store, transcript, status, error,
                   pollingIntervalRef, timers, subs, fetches, server, authBlocked>>

\* resetState leaving the interval scheduled
resetTimersKeep(ts, ref) == ts

\* the last block of resetState: the intervals left after it
resetTimers(ts, ref) == stopPolling(ts, ref)

resetState ==
    /\ mounted
    /\ audioUrl' = ""
    /\ selectedFile' = "null"
    /\ transcript' = NoTranscript
    /\ status' = "idle"
    /\ error' = "null"
    /\ timers' = resetTimers(timers, pollingIntervalRef)
    /\ pollingIntervalRef' = 0
    /\ server' = observed(server, timers', fetches)
    /\ last' = Did("resetState", 0, status, timers' # timers)
    /\ UNCHANGED <<mounted, apiKey, store, subs, fetches, authBlocked>>

\* the two early returns of handleSubmit passed
submitAccepted ==
    /\ apiKey # ""
    /\ audioUrl # "" \/ selectedFile # "null"
    /\ ~isProcessing

\* the id the service will give the job of the next submission
newId == CHOOSE j \in JobIds : ~referenced(j) /\ \A k \in 1..(j - 1) : referenced(k)

\* handleSubmit up to its first await (or its early return)
handleSubmit ==
    /\ mounted
    /\ submitAccepted => inflight(subs, fetches, MaxPending + 1) < MaxPending
    /\ IF apiKey = ""
       THEN /\ status' = "error"
            /\ error' = AuthMsg
            /\ authBlocked' = TRUE
            /\ last' = Did("handleSubmit", 0, "refused", FALSE)
            /\ UNCHANGED <<transcript, subs>>
       ELSE IF ~submitAccepted
       THEN /\ authBlocked' = FALSE
            /\ last' = Did("handleSubmit", 0, "ignored", FALSE)
            /\ UNCHANGED <<status, error, transcript, subs>>
       ELSE /\ error' = "null"
            /\ transcript' = NoTranscript
            /\ authBlocked' = FALSE
            /\ IF selectedFile # "null"
               THEN /\ status' = "uploading"
                    /\ subs' = subs \cup {[sub |-> newId, phase |-> "upload",
                                           key |-> apiKey, src |-> selectedFile]}
                    /\ last' = Did("handleSubmit", newId, "upload", FALSE)
               ELSE /\ status' = "submitting"
                    /\ subs' = subs \cup {[sub |-> newId, phase |-> "create",
                                           key |-> apiKey, src |-> audioUrl]}
                    /\ last' = Did("handleSubmit", newId, "create", FALSE)
    /\ UNCHANGED <<mounted, apiKey, store, audioUrl, selectedFile, pollingIntervalRef,
                   timers, fetches, server>>

\* cleanup of the useEffect(.., []) : the component unmounts
unmount ==
    /\ mounted
    /\ mounted' = FALSE
    /\ timers' = stopPolling(timers, pollingIntervalRef)
    /\ server' = observed(server, timers', fetches)
    /\ last' = Did("unmount", 0, "", timers' # timers)
    /\ UNCHANGED <<apiKey, store, audioUrl, selectedFile, transcript, status, error,
                   pollingIntervalRef, subs, fetches, authBlocked>>

(***************************************************************************)
(* Continuations of handleSubmit.                                          *)
(***************************************************************************)
\* a continuation that never assigns the uploaded address to transcriptionUrl
uploadResponseKeepsUrl(s, ok) ==
    /\ s \in subs
    /\ s.phase = "upload"
    /\ IF ok /\ s.key # ""
       THEN /\ status' = "submitting"
            /\ subs' = (subs \ {s}) \cup {[s EXCEPT !.phase = "create", !.src = audioUrl]}
            /\ last' = Did("uploadResponse", s.sub, "ok", FALSE)
            /\ UNCHANGED error
       ELSE /\ status' = "error"
            /\ error' = SubmitFailMsg
            /\ subs' = subs \ {s}
            /\ last' = Did("uploadResponse", s.sub, "failed", FALSE)
    /\ UNCHANGED <<mounted, apiKey, store, audioUrl, selectedFile, transcript,
                   pollingIntervalRef, timers, fetches, server, authBlocked>>

\* "await uploadFile(..)" settles: resolved with data.upload_url, or rejected
uploadResponse(s, ok) ==
    /\ s \in subs
    /\ s.phase = "upload"
    /\ IF ok /\ s.key # ""
       THEN /\ status' = "submitting"
            /\ subs' = (subs \ {s}) \cup {[s EXCEPT !.phase = "create", !.src = UploadUrl]}
            /\ last' = Did("uploadResponse", s.sub, "ok", FALSE)
            /\ UNCHANGED error
       ELSE /\ status' = "error"
            /\ error' = SubmitFailMsg
            /\ subs' = subs \ {s}
            /\ last' = Did("uploadResponse", s.sub, "failed", FALSE)
    /\ UNCHANGED <<mounted, apiKey, store, audioUrl, selectedFile, transcript,
                   pollingIntervalRef, timers, fetches, server, authBlocked>>

\* "await submitForTranscription(..)" rejects
createFailed(s) ==
    /\ s \in subs
    /\ s.phase = "create"
    /\ status' = "error"
    /\ error' = SubmitFailMsg
    /\ subs' = subs \ {s}
    /\ last' = Did("createFailed", s.sub, "failed", FALSE)
    /\ UNCHANGED <<mounted, apiKey, store, audioUrl, selectedFile, transcript,
                   pollingIntervalRef, timers, fetches, server, authBlocked>>

\* polling whenever the job has no error
startsPollingUnlessError(st) == st # "error"

\* "initialResponse.status === 'queued' || initialResponse.status === 'processing'"
startsPolling(st) == st \in {"queued", "processing"}

\* "await submitForTranscription(..)" resolves with a job in status st
createResponse(s, st, e) ==
    /\ s \in subs
    /\ s.phase = "create"
    /\ s.key # ""
    /\ st = "error" \/ e = ""
    /\ LET id == s.sub
           job == [status |-> st, error |-> e]
           p == pollTranscript(id, s.key)
       IN  /\ transcript' = [id |-> id, status |-> st, error |-> e]
           /\ subs' = subs \ {s}
           /\ IF st = "error"
              THEN /\ status' = "error"
                   /\ error' = IF e # "" THEN e ELSE SubmitJobErrMsg
                   /\ UNCHANGED <<timers, pollingIntervalRef>>
              ELSE IF startsPolling(st)
              THEN /\ status' = "polling"
                   /\ timers' = p.timers
                   /\ pollingIntervalRef' = p.ref
                   /\ UNCHANGED error
              ELSE /\ status' = st
                   /\ UNCHANGED <<error, timers, pollingIntervalRef>>
           /\ server' = observed([server EXCEPT ![id] = job], timers', fetches)
           /\ last' = Did("createResponse", id, st, timers \ timers' # {})
    /\ UNCHANGED <<mounted, apiKey, store, audioUrl, selectedFile, fetches, authBlocked>>

(***************************************************************************)
(* The poll loop.                                                          *)
(***************************************************************************)
\* an interval fires: the callback runs up to "await getTranscriptionResult(id, apiKey)"
\* (pollTranscript schedules no interval for an empty key, so the call never throws here)
tick(t) ==
    /\ t \in timers
    /\ t.key # ""
    /\ inflight(subs, fetches, MaxPending + 1) < MaxPending
    /\ fetches' = [fetches EXCEPT ![t.id] = @ + 1]
    /\ last' = Did("tick", t.id, "", FALSE)
    /\ UNCHANGED <<mounted, apiKey, store, audioUrl, selectedFile, transcript, status,
                   error, pollingIntervalRef, timers, subs, server, authBlocked>>

\* a catch block that reports the failure and lets the interval run
fetchFailedKeepsPolling(id) ==
    /\ fetches[id] > 0
    /\ fetches' = [fetches EXCEPT ![id] = @ - 1]
    /\ status' = "error"
    /\ error' = PollFetchErrMsg
    /\ server' = observed(server, timers, fetches')
    /\ last' = Did("fetchFailed", id, "failed", FALSE)
    /\ UNCHANGED <<mounted, apiKey, store, audioUrl, selectedFile, transcript, subs,
                   authBlocked, timers, pollingIntervalRef>>

\* the catch block of the interval callback
fetchFailed(id) ==
    /\ fetches[id] > 0
    /\ fetches' = [fetches EXCEPT ![id] = @ - 1]
    /\ timers' = stopPolling(timers, pollingIntervalRef)
    /\ pollingIntervalRef' = 0
    /\ status' = "error"
    /\ error' = PollFetchErrMsg
    /\ server' = observed(server, timers', fetches')
    /\ last' = Did("fetchFailed", id, "failed", timers' # timers)
    /\ UNCHANGED <<mounted, apiKey, store, audioUrl, selectedFile, transcript, subs,
                   authBlocked>>

\* a terminal poll result that leaves the interval scheduled
terminalTimersKeep(ts, ref) == ts

\* the intervals left after a poll result with a terminal status
terminalTimers(ts, ref) == stopPolling(ts, ref)

\* the fallback message whatever the job says
pollErrorFixed(e) == PollJobErrMsg

\* "result.error || 'Falha ao processar a transcricao.'"
pollError(e) == IF e # "" THEN e ELSE PollJobErrMsg

\* a poll loop that ends as soon as the job is no longer queued
isTerminalUnlessQueued(st) == st # "queued"

\* a poll loop that ends on completed only
isTerminalOnlyCompleted(st) == st = "completed"

\* "result.status === 'completed' || result.status === 'error'"
isTerminal(st) == st \in {"completed", "error"}

\* the try block of the interval callback after the await; result is the job as the
\* service holds it when it answers
fetchResponse(id) ==
    /\ fetches[id] > 0
    /\ fetches' = [fetches EXCEPT ![id] = @ - 1]
    /\ LET result == server[id]
       IN  IF isTerminal(result.status)
           THEN /\ timers' = terminalTimers(timers, pollingIntervalRef)
                /\ pollingIntervalRef' = 0
                /\ transcript' = [id |-> id, status |-> result.status, error |-> result.error]
                /\ IF result.status = "completed"
                   THEN /\ status' = "completed"
                        /\ UNCHANGED error
                   ELSE /\ status' = "error"
                        /\ error' = pollError(result.error)
                /\ last' = Did("fetchResponse", id, result.status, timers' # timers)
           ELSE /\ last' = Did("fetchResponse", id, result.status, FALSE)
                /\ UNCHANGED <<timers, pollingIntervalRef, transcript, status, error>>
    /\ server' = observed(server, timers', fetches')
    /\ UNCHANGED <<mounted, apiKey, store, audioUrl, selectedFile, subs, authBlocked>>

\* the remote service works on a job: queued -> processing -> completed | error
serverProgress(id, st, e) ==
    /\ \/ server[id].status = "queued" /\ st = "processing" /\ e = ""
       \/ server[id].status = "processing" /\ st = "completed" /\ e = ""
       \/ server[id].status = "processing" /\ st = "error"
    /\ server' = [server EXCEPT ![id] = [status |-> st, error |-> e]]
    /\ UNCHANGED <<mounted, apiKey, store, audioUrl, selectedFile, transcript, status,
                   error, pollingIntervalRef, timers, subs, fetches, last, authBlocked>>

(***************************************************************************)
(* Specifications.                                                         *)
(***************************************************************************)
\* the intents the rendered page can emit (a disabled input, a disabled or hidden button
\* emits nothing), the timers and the network
Next ==
    \/ \E k \in Keys : setApiKey(k)
    \/ \E v \in Urls : ~urlInputDisabled /\ handleUrlChange(v)
    \/ \E f \in Files : ~fileInputDisabled /\ handleFileChange(f)
    \/ ~submitDisabled /\ handleSubmit
    \/ resetVisible /\ resetState
    \/ unmount
    \/ \E s \in subs, ok \in BOOLEAN : uploadResponse(s, ok)
    \/ \E s \in subs : createFailed(s)
    \/ \E s \in subs, st \in TranscriptStatus, e \in JobErrors : createResponse(s, st, e)
    \/ \E t \in timers : tick(t)
    \/ \E id \in JobIds : fetchFailed(id)
    \/ \E id \in JobIds : fetchResponse(id)
    \/ \E id \in JobIds, st \in TranscriptStatus, e \in JobErrors : serverProgress(id, st, e)

Spec == Init /\ [][Next]_vars

\* as Spec, and the two source handlers run whether or not their input is disabled
NextForm ==
    \/ Next
    \/ \E v \in Urls : handleUrlChange(v)
    \/ \E f \in Files : handleFileChange(f)

SpecForm == Init /\ [][NextForm]_vars

\* the controller takes any intent in any state, whatever the page has disabled
NextH ==
    \/ \E k \in Keys : setApiKey(k)
    \/ \E v \in Urls : handleUrlChange(v)
    \/ \E f \in Files : handleFileChange(f)
    \/ handleSubmit
    \/ resetState
    \/ unmount
    \/ \E s \in subs, ok \in BOOLEAN : uploadResponse(s, ok)
    \/ \E s \in subs : createFailed(s)
    \/ \E s \in subs, st \in TranscriptStatus, e \in JobErrors : createResponse(s, st, e)
    \/ \E t \in timers : tick(t)
    \/ \E id \in JobIds : fetchFailed(id)
    \/ \E id \in JobIds : fetchResponse(id)
    \/ \E id \in JobIds, st \in TranscriptStatus, e \in JobErrors : serverProgress(id, st, e)

SpecH == Init /\ [][NextH]_vars

\* the page without resetState and unmount, the credential edited between submissions
\* only (a running submission uses the credential its closures captured), with the
\* scheduling the poll loop relies on: a scheduled interval keeps firing, every request
\* settles, the service goes on with its jobs
NextLive ==
    \/ \E k \in Keys : ~isProcessing /\ setApiKey(k)
    \/ \E v \in Urls : ~urlInputDisabled /\ handleUrlChange(v)
    \/ \E f \in Files : ~fileInputDisabled /\ handleFileChange(f)
    \/ ~submitDisabled /\ handleSubmit
    \/ \E s \in subs, ok \in BOOLEAN : uploadResponse(s, ok)
    \/ \E s \in subs : createFailed(s)
    \/ \E s \in subs, st \in TranscriptStatus, e \in JobErrors : createResponse(s, st, e)
    \/ \E t \in timers : tick(t)
    \/ \E id \in JobIds : fetchFailed(id)
    \/ \E id \in JobIds : fetchResponse(id)
    \/ \E id \in JobIds, st \in TranscriptStatus, e \in JobErrors : serverProgress(id, st, e)

Fairness ==
    /\ WF_vars(\E t \in timers : tick(t))
    /\ WF_vars(\E id \in JobIds : fetchResponse(id) \/ fetchFailed(id))
    /\ WF_vars(\E s \in subs : \/ \E ok \in BOOLEAN : uploadResponse(s, ok)
                                \/ createFailed(s)
                                \/ \E st \in TranscriptStatus, e \in JobErrors :
                                       createResponse(s, st, e))
    /\ WF_vars(\E id \in JobIds, st \in TranscriptStatus, e \in JobErrors :
                   serverProgress(id, st, e))

SpecLive == Init /\ [][NextLive]_vars /\ Fairness

TypeOK ==
    /\ mounted \in BOOLEAN
    /\ apiKey \in Keys /\ store \in Keys
    /\ audioUrl \in Urls /\ selectedFile \in Files
    /\ status \in Status
    /\ pollingIntervalRef \in {0} \cup JobIds
    /\ \A t \in timers : t.id \in JobIds
    /\ \A s \in subs : s.sub \in JobIds
    /\ \A j \in JobIds : fetches[j] \in 0..MaxPending

(***************************************************************************)
(* Properties.                                                             *)
(***************************************************************************)
ResponseActs == {"uploadResponse", "createFailed", "createResponse", "fetchFailed",
                 "fetchResponse"}

\* ids of the jobs in flight: a suspended submission, or an interval polling the job
InFlightJobs == {s.sub : s \in subs} \cup {t.id : t \in timers}

\* C1: in every reachable state at most one poll interval is scheduled, also right
\* after pollTranscript scheduled one while an earlier one was still running
C1_AtMostOneTimer == Cardinality(timers) <= 1

\* pollTranscript ran while an interval was scheduled: it cleared it and scheduled its own
C1_Witness ==
    /\ last.act = "createResponse"
    /\ last.stopped
    /\ timers = {[id |-> last.job, key |-> "k1"]}

\* C2: a submit with an empty credential sets the state to error with the
\* authentication message, and from then on, until a submit with a non-empty
\* credential, no step invokes upload, createJob or fetchJob
C2_NoClientCallAfterRefusal ==
    /\ last.act = "handleSubmit" /\ last.resp = "refused"
           => status = "error" /\ error = AuthMsg
    /\ authBlocked => Calls = {}

\* C3: the source URL and the selected file are never both set; a non-empty URL
\* clears the file and a selected file clears the URL
C3_SourceExclusive ==
    /\ ~(audioUrl # "" /\ selectedFile # "null")
    /\ last.act = "handleUrlChange" /\ audioUrl # "" => selectedFile = "null"
    /\ last.act = "handleFileChange" /\ selectedFile # "null" => audioUrl = ""

\* a file was selected while a URL was set, and the URL was cleared
C3_Witness ==
    /\ last.act = "handleFileChange"
    /\ last.resp = "cleared"
    /\ selectedFile # "null"

\* C4: right after a createJob response with status completed the state is completed,
\* the job is published, and the job has neither an interval nor a fetchJob request
C4_CompletedAtCreate ==
    last.act = "createResponse" /\ last.resp = "completed"
        => /\ status = "completed"
           /\ transcript = [id |-> last.job, status |-> "completed", error |-> ""]
           /\ ~last.stopped
           /\ \A t \in timers : t.id # last.job
           /\ fetches[last.job] = 0

C4_Witness ==
    /\ last.act = "createResponse"
    /\ last.resp = "completed"
    /\ status = "completed"
    /\ mounted

\* C5: right after a poll response with status error no interval is scheduled, the state
\* is error, and the error shown is the job's own message when it has one
C5_PollError ==
    last.act = "fetchResponse" /\ last.resp = "error"
        => /\ timers = {}
           /\ pollingIntervalRef = 0
           /\ status = "error"
           /\ transcript.status = "error"
           /\ transcript.error # "" => error = transcript.error

\* a poll response with status error stopped the running interval and its message is shown
C5_Witness ==
    /\ last.act = "fetchResponse"
    /\ last.resp = "error"
    /\ last.stopped
    /\ error = "bad audio"

\* C6: right after a reset from completed or error the controller is in its initial
\* state: idle, no Job, no error, no source, no interval
C6_ResetIsInitial ==
    last.act = "resetState" /\ last.resp \in {"completed", "error"}
        => /\ status = "idle"
           /\ transcript = NoTranscript
           /\ error = "null"
           /\ audioUrl = ""
           /\ selectedFile = "null"
           /\ timers = {}
           /\ pollingIntervalRef = 0

\* a reset from completed or error that had an interval to stop
C6_Witness ==
    /\ last.act = "resetState"
    /\ last.resp \in {"completed", "error"}
    /\ last.stopped
    /\ status = "idle"

\* C7: while the state is idle (every request still in flight was issued before the
\* reset that led to idle) no response changes the state, the Job, the error or the timer
C7_StaleResponsesIgnored ==
    [][mounted /\ status = "idle" /\ last'.act \in ResponseActs
           => UNCHANGED <<status, transcript, error, timers, pollingIntervalRef>>]_vars

\* C8: once the component is unmounted no interval is scheduled and no fetchJob is issued
C8_NoTimerAfterUnmount ==
    ~mounted => timers = {} /\ "fetchJob" \notin Calls

\* C9: at most one job is in flight: a pending upload or createJob, or a polled job
C9_OneInFlight == Cardinality(InFlightJobs) <= 1

\* C10: a state completed or error changes only by resetState or handleSubmit
C10_TerminalIsStable ==
    [][mounted /\ status \in {"completed", "error"} /\ status' # status
           => last'.act \in {"resetState", "handleSubmit"}]_vars

\* C11: under the scheduling of SpecLive a state polling is always followed by a state
\* completed or error: the loop keeps fetching until an answer ends it
C11_PollingEnds == (status = "polling") ~> (status \in {"completed", "error"})

\* a poll answer ended the loop with the result
C11_Witness ==
    /\ last.act = "fetchResponse"
    /\ last.resp = "completed"
    /\ last.stopped
    /\ status = "completed"

\* C12: the entry in the browser's store is the credential the component holds: the
\* credential's text while it is not empty, no entry ("") while it is empty
C12_StoreMirrorsKey == store = apiKey

\* the credential was cleared after it had been stored
C12_Witness ==
    /\ last.act = "setApiKey"
    /\ apiKey = ""
    /\ store = ""

\* the requests of submission j that have not settled
requestsOf(j) == {s \in subs : s.sub = j}

\* C13: a submission with a file asks for the upload first and for the job only once the
\* upload succeeded, with the address the upload returned; a submission with an address
\* only never uploads and asks for the job with the user's address; a failed upload
\* ends the submission in error with no request for a job
C13_CallsOrdered ==
    /\ last.act = "handleSubmit" /\ last.resp = "upload"
          => /\ selectedFile # "null"
             /\ requestsOf(last.job) = {[sub |-> last.job, phase |-> "upload",
                                         key |-> apiKey, src |-> selectedFile]}
    /\ last.act = "handleSubmit" /\ last.resp = "create"
          => /\ selectedFile = "null"
             /\ audioUrl # ""
             /\ requestsOf(last.job) = {[sub |-> last.job, phase |-> "create",
                                         key |-> apiKey, src |-> audioUrl]}
    /\ last.act = "uploadResponse" /\ last.resp = "ok"
          => \E s \in subs : /\ requestsOf(last.job) = {s}
                             /\ s.phase = "create"
                             /\ s.src = UploadUrl
    /\ last.act = "uploadResponse" /\ last.resp = "failed"
          => /\ status = "error"
             /\ error = SubmitFailMsg
             /\ requestsOf(last.job) = {}
    /\ \A s \in subs : s.phase = "create" => s.src = UploadUrl \/ s.src \in Urls \ {""}

\* an upload succeeded and the job is asked for with the uploaded address
C13_Witness ==
    /\ last.act = "uploadResponse"
    /\ last.resp = "ok"
    /\ \E s \in requestsOf(last.job) : s.phase = "create" /\ s.src = UploadUrl

\* C14: an interval is scheduled only while status is polling
C14_TimerOnlyWhilePolling == status # "polling" => timers = {}

\* C15: an accepted submission leaves no interval of an earlier job scheduled when it
\* makes its first request
C15_SubmitCancelsTimer ==
    last.act = "handleSubmit" /\ last.resp \in {"upload", "create"} => timers = {}

\* C16: a submit makes a request (upload or createJob) only when status is idle
C16_SubmitOnlyFromIdle ==
    [][last'.act = "handleSubmit" /\ last'.resp \in {"upload", "create"}
          => status = "idle"]_vars

\* C17: after a failed poll request no interval is scheduled, the handle is null, and
\* status is error with the message of the catch block; with no interval no further
\* request goes out for the job
C17_FetchFailureStops ==
    last.act = "fetchFailed"
        => /\ timers = {}
           /\ pollingIntervalRef = 0
           /\ status = "error"
           /\ error = PollFetchErrMsg

\* a poll request failed while the job's interval was scheduled
C17_Witness ==
    /\ last.act = "fetchFailed"
    /\ last.stopped
    /\ status = "error"
    /\ timers = {}

\* C18: a poll answer with status queued or processing changes neither status nor the
\* job held, the error message, the interval or its handle, so the interval goes on firing
C18_NonTerminalAnswerIsNoOp ==
    [][last'.act = "fetchResponse" /\ last'.resp \in {"queued", "processing"}
          => UNCHANGED <<status, transcript, error, timers, pollingIntervalRef>>]_vars

\* a poll answer "processing" arrived while polling and the interval is still scheduled
C18_Witness ==
    /\ last.act = "fetchResponse"
    /\ last.resp = "processing"
    /\ status = "polling"
    /\ timers = {[id |-> last.job, key |-> "k1"]}
    /\ pollingIntervalRef = last.job

\* C19: the answer to a poll request of a job other than the one being polled changes
\* neither the job held nor status nor the interval
C19_EarlierJobIgnored ==
    [][(last'.act \in {"fetchResponse", "fetchFailed"}
           /\ timers # {}
           /\ (\A t \in timers : t.id # last'.job))
          => UNCHANGED <<transcript, status, timers>>]_vars

\* C20: status is error exactly when an error message is held
C20_StatusErrorConsistent == (status = "error") <=> (error # "null")

=============================================================================
